---- MODULE Spec2Model ----
(***************************************************************************)
(* Model of package natsmq (rovergulf/utils, mq/nats): the NATS connection *)
(* factory (NewConn, NewEncodedConn), the NATS-streaming connection        *)
(* (NewStanConn, Stop, DefaultAckHandler) and the publish helpers          *)
(* (SendMessage, SendAsyncMessage).                                        *)
(*                                                                         *)
(* The client libraries (nats.go, stan.go, nuid, encoding/json) are the    *)
(* environment: every outcome they can hand back to this package (an       *)
(* error, a handle, an id, an acknowledgement) is a nondeterministic       *)
(* choice; what this package does with the outcome is translated from its  *)
(* source.                                                                 *)
(*                                                                         *)
(* time.Duration is an int64 count of nanoseconds.  TLC integers are 32    *)
(* bits wide, so durations are counted here in microseconds; every         *)
(* duration of the program is a whole number of microseconds and the only  *)
(* arithmetic on them is the quotient totalWait / reconnectDelay, which    *)
(* does not depend on the unit.                                            *)
(***************************************************************************)
EXTENDS Integers, Sequences, FiniteSets, TLC

VARIABLES
    cfg,        \* the caller's *Config, shared by every factory call
    now,        \* the last value read from time.Now().Unix()
    sc,         \* the StanConn the caller operates on
    closed,     \* stan client handles on which Close was called
    pending,    \* ids of async publishes whose acknowledgement is outstanding
    guids,      \* the transport's own count of publishes it accepted
    calls,      \* how many operations the caller has started
    derived,    \* every (base id, timestamp, client id) NewStanConn derived
    pc,         \* per goroutine: where it stands inside a send operation
    loc,        \* per goroutine: its locals while inside a send operation
    last        \* what the last operation did and returned

vars == <<cfg, now, sc, closed, pending, guids, calls, derived, pc, loc, last>>

----------------------------------------------------------------------------
(* Bounds of the model *)

MaxOps == 3         \* operations the caller starts in one run
MaxSecs == 1        \* seconds the clock advances past StartSec

----------------------------------------------------------------------------
(* Values *)

Nil == "nil"                \* the nil error
NoClient == 0               \* the nil stan.Conn / *nats.Conn handle
Second == 1000000           \* time.Second, in microseconds
\* Unix time of the initial state: the second before the timestamp grows
\* from one decimal digit to two.
StartSec == 10 - 1
Minute == 60 * Second       \* time.Minute
DefaultAckWait == 30 * Second   \* stan.DefaultAckWait

NatsErrors == {"nats: no servers available for connection", "nats: timeout"}
EncoderErrors == {"nats: no encoder registered for 'json'"}
StanConnectErrors == {"stan: connect request timeout", "stan: clientID already registered"}
ErrConnectionClosed == "stan: connection closed"
CloseErrors == {"stan: close request timeout"}
PublishErrors == {"stan: publish ack timeout"}
AckErrors == {"stan: publish ack timeout"}

Channels == {"events"}

\* Values a caller may hand to a send operation as `data interface{}`.
Data == {[kind |-> "int", v |-> 42], [kind |-> "nil", v |-> 0], [kind |-> "chan", v |-> 0]}

Opt(name, a, b) == [opt |-> name, a |-> a, b |-> b]

----------------------------------------------------------------------------
(* Pure functions *)

Digit(d) == <<"0", "1", "2", "3", "4", "5", "6", "7", "8", "9">>[d + 1]

RECURSIVE Itoa(_)
\* fmt's %d verb: the decimal digits of n, with a leading '-' when negative.
Itoa(n) ==
    IF n < 0 THEN "-" \o Itoa(-n)
    ELSE IF n < 10 THEN Digit(n)
    ELSE Itoa(n \div 10) \o Digit(n % 10)

ClientIdMinutes(base, t) == base \o "-" \o Itoa(t \div 60)
\* fmt.Sprintf("%s-%d", c.ClientId, time.Now().Unix()); t is the value
\* time.Now().Unix() gave, in whole seconds.
ClientId(base, t) == base \o "-" \o Itoa(t)

\* json.Marshal: the JSON text of a value, or an error for a value JSON
\* cannot represent (a channel).
Marshal(data) ==
    CASE data.kind = "int" -> [err |-> Nil, payload |-> Itoa(data.v)]
      [] data.kind = "nil" -> [err |-> Nil, payload |-> "null"]
      [] OTHER -> [err |-> "json: unsupported type: chan int", payload |-> ""]

RECURSIVE LastOpt(_, _)
\* The options are applied in order, so the last option of a name decides:
\* its record, or Opt(name, -1, -1) when the list holds none.
LastOpt(opts, name) ==
    IF opts = <<>> THEN Opt(name, -1, -1)
    ELSE IF opts[Len(opts)].opt = name THEN opts[Len(opts)]
    ELSE LastOpt(SubSeq(opts, 1, Len(opts) - 1), name)

CountOpt(opts, name) == Cardinality({i \in 1..Len(opts) : opts[i].opt = name})

----------------------------------------------------------------------------
(* Connection factory *)

setupDefaultNatsConnOptionsSwapped(opts) ==
    LET totalWait == 10 * Minute
        reconnectDelay == 10 * Second
    IN  opts \o << Opt("ReconnectWait", reconnectDelay, 0),
                   Opt("MaxReconnects", reconnectDelay \div totalWait, 0),
                   Opt("DisconnectErrHandler", 0, 0),
                   Opt("ReconnectHandler", 0, 0),
                   Opt("ClosedHandler", 0, 0),
                   Opt("ErrorHandler", 0, 0) >>
setupDefaultNatsConnOptions(opts) ==
    LET totalWait == 10 * Minute
        reconnectDelay == 10 * Second
    IN  opts \o << Opt("ReconnectWait", reconnectDelay, 0),
                   Opt("MaxReconnects", totalWait \div reconnectDelay, 0),
                   Opt("DisconnectErrHandler", 0, 0),
                   Opt("ReconnectHandler", 0, 0),
                   Opt("ClosedHandler", 0, 0),
                   Opt("ErrorHandler", 0, 0) >>

\* What nats.Connect can answer: an error, or the handle of a new connection.
NatsOutcomes == [err : NatsErrors, nc : {NoClient}] \cup [err : {Nil}, nc : {1}]
\* What nats.NewEncodedConn can answer.
EncoderOutcomes == {Nil} \cup EncoderErrors
\* What stan.Connect can answer; h is the handle a success would return.
StanOutcomes(h) == [err : StanConnectErrors, sc : {NoClient}] \cup [err : {Nil}, sc : {h}]

NewConnWraps(c, out) ==
    LET c1 == [c EXCEPT !.NatsConn = setupDefaultNatsConnOptions(c.NatsConn)]
    IN  IF out.err # Nil
        THEN [c |-> c1, nc |-> NoClient, err |-> "connect: " \o out.err,
              natsOpts |-> c1.NatsConn, natsConnects |-> 1]
        ELSE [c |-> c1, nc |-> out.nc, err |-> Nil,
              natsOpts |-> c1.NatsConn, natsConnects |-> 1]
\* NewConn(c): c is a pointer, so the assignment to c.NatsConn is to the
\* caller's Config; field c of the result is that Config after the call.
NewConn(c, out) ==
    LET c1 == [c EXCEPT !.NatsConn = setupDefaultNatsConnOptions(c.NatsConn)]
    IN  IF out.err # Nil
        THEN [c |-> c1, nc |-> NoClient, err |-> out.err,
              natsOpts |-> c1.NatsConn, natsConnects |-> 1]
        ELSE [c |-> c1, nc |-> out.nc, err |-> Nil,
              natsOpts |-> c1.NatsConn, natsConnects |-> 1]

\* NewEncodedConn(c): enc is the answer of nats.NewEncodedConn, asked only
\* when NewConn succeeded.
NewEncodedConn(c, out, enc) ==
    LET r == NewConn(c, out)
    IN  IF r.err # Nil
        THEN [c |-> r.c, nonNil |-> FALSE, err |-> r.err, natsOpts |-> r.natsOpts,
              natsConnects |-> r.natsConnects, encWraps |-> 0, logs |-> <<>>]
        ELSE IF enc # Nil
        THEN [c |-> r.c, nonNil |-> FALSE, err |-> enc, natsOpts |-> r.natsOpts,
              natsConnects |-> r.natsConnects, encWraps |-> 1, logs |-> <<>>]
        ELSE [c |-> r.c, nonNil |-> TRUE, err |-> Nil, natsOpts |-> r.natsOpts,
              natsConnects |-> r.natsConnects, encWraps |-> 1,
              logs |-> << <<"info", "Successfully created nats.EncodedConn">> >>]

----------------------------------------------------------------------------
(* Streaming connection *)

\* nuid.New(): a fresh generator.  The generator is recorded by the calls
\* this package makes on it: randomized counts RandomizePrefix, next counts
\* Next.
NewNuid == [isNil |-> FALSE, randomized |-> 0, next |-> 0]
NilNuid == [isNil |-> TRUE, randomized |-> 0, next |-> 0]
RandomizePrefix(n) == [n EXCEPT !.randomized = @ + 1]
NuidNext(n) == [n EXCEPT !.next = @ + 1]

AdvanceSyncRandomizes(n) == NuidNext(RandomizePrefix(n))
\* What a successful SendMessage does to the generator: sc.nuid.Next().
AdvanceSync(n) == NuidNext(n)
\* What a successful SendAsyncMessage does to the generator:
\* sc.nuid.RandomizePrefix(), then sc.nuid.Next().
AdvanceAsync(n) == NuidNext(RandomizePrefix(n))

\* The zero StanConn: what a caller holds that never got one from
\* NewStanConn (client is nil, "not connected"; logger and nuid are nil
\* pointers, so using either would panic).
ZeroStanConn == [clientId |-> "", client |-> NoClient, logger |-> FALSE, nuid |-> NilNuid]

AckWaitOptionZeroOk(ackTimeout) ==
    IF ackTimeout >= 0
    THEN <<Opt("PubAckWait", ackTimeout, 0)>>
    ELSE <<Opt("PubAckWait", DefaultAckWait, 0)>>
\* The if/else that appends stan.PubAckWait.
AckWaitOption(ackTimeout) ==
    IF ackTimeout > 0
    THEN <<Opt("PubAckWait", ackTimeout, 0)>>
    ELSE <<Opt("PubAckWait", DefaultAckWait, 0)>>

\* The appends to c.StanConn, in the order of the source.
StanOptions(opts, nc, ackTimeout) ==
    opts \o << Opt("SetConnectionLostHandler", 0, 0),
               Opt("Pings", 15, 5),
               Opt("NatsConn", nc, 0) >>
         \o AckWaitOption(ackTimeout)

\* NewStanConn(c) called at time t; out and st are the answers of
\* nats.Connect and of stan.Connect (st is asked only when NewConn
\* succeeded).  nonNil: whether the returned *StanConn is non-nil, s: the
\* StanConn built.
NewStanConn(c, t, out, st) ==
    LET s == [clientId |-> ClientId(c.ClientId, t), client |-> NoClient,
              logger |-> TRUE, nuid |-> NewNuid]
        r == NewConn(c, out)
        c2 == [r.c EXCEPT !.StanConn = StanOptions(r.c.StanConn, r.nc, r.c.AckTimeout)]
    IN  IF r.err # Nil
        THEN [c |-> r.c, nonNil |-> FALSE, s |-> s, err |-> r.err, clientId |-> s.clientId,
              natsOpts |-> r.natsOpts, stanOpts |-> <<>>,
              natsConnects |-> r.natsConnects, stanConnects |-> 0,
              logs |-> << <<"error", "Failed to set nats server connection">> >>]
        ELSE IF st.err # Nil
        THEN [c |-> c2, nonNil |-> FALSE, s |-> s, err |-> st.err, clientId |-> s.clientId,
              natsOpts |-> r.natsOpts, stanOpts |-> c2.StanConn,
              natsConnects |-> r.natsConnects, stanConnects |-> 1,
              logs |-> << <<"error", "Failed to set stan connection">> >>]
        ELSE [c |-> c2, nonNil |-> TRUE, s |-> [s EXCEPT !.client = st.sc], err |-> Nil,
              clientId |-> s.clientId,
              natsOpts |-> r.natsOpts, stanOpts |-> c2.StanConn,
              natsConnects |-> r.natsConnects, stanConnects |-> 1,
              logs |-> << <<"info", "Initialized nats-streaming conn">> >>]

\* What Close can answer on handle h: nil, or an error (a handle that was
\* closed before answers nil or ErrConnectionClosed, by library version).
CloseOutcomes(h) ==
    IF h \in closed THEN {Nil, ErrConnectionClosed} ELSE {Nil} \cup CloseErrors

\* What Publish / PublishAsync can answer on handle h: a closed client only
\* refuses.
PublishOutcomes(h) ==
    IF h \in closed THEN {ErrConnectionClosed} ELSE {Nil} \cup PublishErrors

StopLogsFirst(s, cl) ==
    IF s.client # NoClient
    THEN [s |-> s, panic |-> ~s.logger, closeCalls |-> 1,
          logs |-> << <<"debug", "Closing connection">> >> \o
                   (IF cl # Nil
                    THEN << <<"error", "Unable to stop nats-streaming server connection">> >>
                    ELSE <<>>)]
    ELSE [s |-> s, panic |-> ~s.logger, closeCalls |-> 0,
          logs |-> << <<"debug", "Closing connection">> >>]
StopResets(s, cl) ==
    IF s.client # NoClient
    THEN [s |-> [s EXCEPT !.client = NoClient], panic |-> ~s.logger, closeCalls |-> 1,
          logs |-> << <<"debug", "Closing connection">> >> \o
                   (IF cl # Nil
                    THEN << <<"error", "Unable to stop nats-streaming server connection">> >>
                    ELSE <<>>)]
    ELSE [s |-> s, panic |-> FALSE, closeCalls |-> 0, logs |-> <<>>]
\* Stop(): cl is the answer of client.Close().  Nothing is returned; s is
\* the StanConn after the call.
Stop(s, cl) ==
    IF s.client # NoClient
    THEN [s |-> s, panic |-> ~s.logger, closeCalls |-> 1,
          logs |-> << <<"debug", "Closing connection">> >> \o
                   (IF cl # Nil
                    THEN << <<"error", "Unable to stop nats-streaming server connection">> >>
                    ELSE <<>>)]
    ELSE [s |-> s, panic |-> FALSE, closeCalls |-> 0, logs |-> <<>>]

DefaultAckHandlerRetries(s, nid, err) ==
    IF err # Nil
    THEN [s |-> s, panic |-> ~s.logger, pubCalls |-> 1, payload |-> Itoa(nid),
          logs |-> << <<"error", "Error publishing message">> >>]
    ELSE [s |-> s, panic |-> ~s.logger, pubCalls |-> 0, payload |-> "",
          logs |-> << <<"info", "Received ack for message">> >>]
\* DefaultAckHandler(nid, err): the transport's completion callback.
DefaultAckHandler(s, nid, err) ==
    IF err # Nil
    THEN [s |-> s, panic |-> ~s.logger, pubCalls |-> 0, payload |-> "",
          logs |-> << <<"error", "Error publishing message">> >>]
    ELSE [s |-> s, panic |-> ~s.logger, pubCalls |-> 0, payload |-> "",
          logs |-> << <<"info", "Received ack for message">> >>]

SendMessageNoReturn(s, ch, data, perr) ==
    LET m == Marshal(data)
    IN  IF s.client = NoClient
        THEN [s |-> s, panic |-> FALSE, marshalCalls |-> 0, marshalErr |-> Nil,
              pubCalls |-> 0, payload |-> "", pubErr |-> Nil, logs |-> <<>>]
        ELSE IF perr # Nil
        THEN [s |-> s, panic |-> ~s.logger, marshalCalls |-> 1, marshalErr |-> m.err,
              pubCalls |-> 1, payload |-> m.payload, pubErr |-> perr,
              logs |-> << <<"error", "Error publishing message">> >>]
        ELSE [s |-> [s EXCEPT !.nuid = AdvanceSync(@)],
              panic |-> ~s.logger \/ s.nuid.isNil,
              marshalCalls |-> 1, marshalErr |-> m.err,
              pubCalls |-> 1, payload |-> m.payload, pubErr |-> Nil,
              logs |-> << <<"info", "Sent message">> >>]
\* SendMessage(channel, data): perr is the answer of client.Publish, asked
\* only when the call gets that far.  marshalErr: the error json.Marshal
\* gave (Nil when it gave none or was not called).
SendMessage(s, ch, data, perr) ==
    LET m == Marshal(data)
    IN  IF s.client = NoClient
        THEN [s |-> s, panic |-> FALSE, marshalCalls |-> 0, marshalErr |-> Nil,
              pubCalls |-> 0, payload |-> "", pubErr |-> Nil, logs |-> <<>>]
        ELSE IF m.err # Nil
        THEN [s |-> s, panic |-> ~s.logger, marshalCalls |-> 1, marshalErr |-> m.err,
              pubCalls |-> 0, payload |-> "", pubErr |-> Nil,
              logs |-> << <<"error", "Unable to marshal data">> >>]
        ELSE IF perr # Nil
        THEN [s |-> s, panic |-> ~s.logger, marshalCalls |-> 1, marshalErr |-> Nil,
              pubCalls |-> 1, payload |-> m.payload, pubErr |-> perr,
              logs |-> << <<"error", "Error publishing message">> >>]
        ELSE [s |-> [s EXCEPT !.nuid = AdvanceSync(@)],
              panic |-> ~s.logger \/ s.nuid.isNil,
              marshalCalls |-> 1, marshalErr |-> Nil,
              pubCalls |-> 1, payload |-> m.payload, pubErr |-> Nil,
              logs |-> << <<"info", "Sent message">> >>]

\* SendAsyncMessage(channel, data): perr is the error answer of
\* client.PublishAsync (the id it returns is the transport's own).
SendAsyncMessage(s, ch, data, perr) ==
    LET m == Marshal(data)
    IN  IF s.client = NoClient
        THEN [s |-> s, panic |-> FALSE, marshalCalls |-> 0, marshalErr |-> Nil,
              pubCalls |-> 0, payload |-> "", pubErr |-> Nil, logs |-> <<>>]
        ELSE IF m.err # Nil
        THEN [s |-> s, panic |-> ~s.logger, marshalCalls |-> 1, marshalErr |-> m.err,
              pubCalls |-> 0, payload |-> "", pubErr |-> Nil,
              logs |-> << <<"error", "Unable to marshal data">> >>]
        ELSE IF perr # Nil
        THEN [s |-> s, panic |-> ~s.logger, marshalCalls |-> 1, marshalErr |-> Nil,
              pubCalls |-> 1, payload |-> m.payload, pubErr |-> perr,
              logs |-> << <<"error", "Error publishing">> >>]
        ELSE [s |-> [s EXCEPT !.nuid = AdvanceAsync(@)],
              panic |-> ~s.logger \/ s.nuid.isNil,
              marshalCalls |-> 1, marshalErr |-> Nil,
              pubCalls |-> 1, payload |-> m.payload, pubErr |-> Nil,
              logs |-> << <<"info", "Published">> >>]

----------------------------------------------------------------------------
(* State *)

Goroutines == {1, 2}

\* The Configs a caller may pass: with and without options of its own,
\* with an ack timeout that is negative, zero or positive.
Configs ==
    [Broker : {"nats://localhost:4222"}, ClusterId : {"test-cluster"},
     ClientId : {"svc"},
     AckTimeout : {-Second, 0, 1, 5 * Second},
     NatsConn : {<<>>, <<Opt("MaxReconnects", 5, 0)>>},
     StanConn : {<<Opt("PubAckWait", 2 * Second, 0)>>}]

\* The fields of `last`, at their values for an operation that does not
\* touch them.
Quiet ==
    [op |-> "none", g |-> 0, step |-> "return", panic |-> FALSE, err |-> Nil, nonNil |-> FALSE,
     natsErr |-> Nil, encErr |-> Nil, stanErr |-> Nil,
     natsConnects |-> 0, stanConnects |-> 0, encWraps |-> 0,
     natsOpts |-> <<>>, stanOpts |-> <<>>, clientId |-> "", ts |-> 0,
     closeCalls |-> 0, closeErr |-> Nil,
     data |-> [kind |-> "nil", v |-> 0],
     marshalCalls |-> 0, marshalErr |-> Nil,
     pubCalls |-> 0, payload |-> "", pubErr |-> Nil, nid |-> 0, ackErr |-> Nil,
     logs |-> <<>>]

\* Quiet with the fields of r set, and the state the operation started from.
Did(r) ==
    [k \in DOMAIN Quiet \cup
          {"cfgBefore", "scBefore", "wasClosed", "pendingBefore", "guidsBefore"} |->
        CASE k \in DOMAIN r -> r[k]
          [] k = "cfgBefore" -> cfg
          [] k = "scBefore" -> sc
          [] k = "wasClosed" -> sc.client \in closed
          [] k = "pendingBefore" -> pending
          [] k = "guidsBefore" -> guids
          [] OTHER -> Quiet[k]]

NoLocals == [op |-> "none", nuid |-> NilNuid, nid |-> 0]

Idle == \A g \in Goroutines : pc[g] = "idle"

Init ==
    /\ cfg \in Configs
    /\ now = StartSec
    /\ sc = ZeroStanConn
    /\ closed = {}
    /\ pending = {}
    /\ guids = 0
    /\ calls = 0
    /\ derived = {}
    /\ pc = [g \in Goroutines |-> "idle"]
    /\ loc = [g \in Goroutines |-> NoLocals]
    /\ last = Did([op |-> "init"])

----------------------------------------------------------------------------
(* Actions: one per operation, the caller being a single goroutine *)

\* What time.Now().Unix() can answer: the second of the last reading (the
\* two readings fall in one second) or a later one.
UnixOutcomes(t) == t..(StartSec + MaxSecs)

CallNewConn ==
    /\ Idle
    /\ calls < MaxOps
    /\ \E out \in NatsOutcomes :
        LET r == NewConn(cfg, out)
        IN  /\ cfg' = r.c
            /\ last' = Did([op |-> "NewConn", err |-> r.err, nonNil |-> r.nc # NoClient,
                            natsErr |-> out.err, natsConnects |-> r.natsConnects,
                            natsOpts |-> r.natsOpts])
    /\ calls' = calls + 1
    /\ UNCHANGED <<now, sc, closed, pending, guids, derived, pc, loc>>

CallNewEncodedConn ==
    /\ Idle
    /\ calls < MaxOps
    /\ \E out \in NatsOutcomes, enc \in EncoderOutcomes :
        LET r == NewEncodedConn(cfg, out, enc)
        IN  /\ cfg' = r.c
            /\ last' = Did([op |-> "NewEncodedConn", err |-> r.err, nonNil |-> r.nonNil,
                            natsErr |-> out.err,
                            encErr |-> IF r.encWraps = 0 THEN Nil ELSE enc,
                            natsConnects |-> r.natsConnects, encWraps |-> r.encWraps,
                            natsOpts |-> r.natsOpts, logs |-> r.logs])
    /\ calls' = calls + 1
    /\ UNCHANGED <<now, sc, closed, pending, guids, derived, pc, loc>>

\* On success the caller keeps the StanConn returned; on failure it got nil
\* and keeps what it had.
CallNewStanConn ==
    /\ Idle
    /\ calls < MaxOps
    /\ \E t \in UnixOutcomes(now), out \in NatsOutcomes, st \in StanOutcomes(calls + 1) :
        LET r == NewStanConn(cfg, t, out, st)
        IN  /\ now' = t
            /\ cfg' = r.c
            /\ sc' = IF r.nonNil THEN r.s ELSE sc
            /\ derived' = derived \cup
                   {[base |-> cfg.ClientId, t |-> t, id |-> r.clientId]}
            /\ last' = Did([op |-> "NewStanConn", err |-> r.err, nonNil |-> r.nonNil,
                            natsErr |-> out.err,
                            stanErr |-> IF r.stanConnects = 0 THEN Nil ELSE st.err,
                            natsConnects |-> r.natsConnects,
                            stanConnects |-> r.stanConnects,
                            natsOpts |-> r.natsOpts, stanOpts |-> r.stanOpts,
                            clientId |-> r.clientId, ts |-> t, logs |-> r.logs])
    /\ calls' = calls + 1
    /\ UNCHANGED <<closed, pending, guids, pc, loc>>

CallStop ==
    /\ Idle
    /\ calls < MaxOps
    /\ \E cl \in CloseOutcomes(sc.client) :
        LET r == Stop(sc, cl)
        IN  /\ sc' = r.s
            /\ closed' = IF r.closeCalls > 0 THEN closed \cup {sc.client} ELSE closed
            /\ last' = Did([op |-> "Stop", panic |-> r.panic,
                            closeCalls |-> r.closeCalls,
                            closeErr |-> IF r.closeCalls > 0 THEN cl ELSE Nil,
                            logs |-> r.logs])
    /\ calls' = calls + 1
    /\ UNCHANGED <<cfg, now, pending, guids, derived, pc, loc>>

CallSendMessage ==
    /\ Idle
    /\ calls < MaxOps
    /\ \E ch \in Channels, data \in Data, perr \in PublishOutcomes(sc.client) :
        LET r == SendMessage(sc, ch, data, perr)
            sent == r.pubCalls > 0 /\ perr = Nil
        IN  /\ sc' = r.s
            /\ guids' = IF sent THEN guids + 1 ELSE guids
            /\ last' = Did([op |-> "SendMessage", panic |-> r.panic, data |-> data,
                            marshalCalls |-> r.marshalCalls, marshalErr |-> r.marshalErr,
                            pubCalls |-> r.pubCalls, payload |-> r.payload,
                            pubErr |-> r.pubErr, logs |-> r.logs])
    /\ calls' = calls + 1
    /\ UNCHANGED <<cfg, now, closed, pending, derived, pc, loc>>

\* The id PublishAsync returns is the transport's (guids + 1); its
\* acknowledgement is outstanding when the call returns.
CallSendAsyncMessage ==
    /\ Idle
    /\ calls < MaxOps
    /\ \E ch \in Channels, data \in Data, perr \in PublishOutcomes(sc.client) :
        LET r == SendAsyncMessage(sc, ch, data, perr)
            sent == r.pubCalls > 0 /\ perr = Nil
        IN  /\ sc' = r.s
            /\ guids' = IF sent THEN guids + 1 ELSE guids
            /\ pending' = IF sent THEN pending \cup {guids + 1} ELSE pending
            /\ last' = Did([op |-> "SendAsyncMessage", panic |-> r.panic, data |-> data,
                            marshalCalls |-> r.marshalCalls, marshalErr |-> r.marshalErr,
                            pubCalls |-> r.pubCalls, payload |-> r.payload,
                            pubErr |-> r.pubErr,
                            nid |-> IF sent THEN guids + 1 ELSE 0, logs |-> r.logs])
    /\ calls' = calls + 1
    /\ UNCHANGED <<cfg, now, closed, derived, pc, loc>>

\* The transport runs the completion callback of an outstanding publish,
\* on a goroutine of its own, with the acknowledgement or an error.
AckCallback ==
    \E nid \in pending, err \in {Nil} \cup AckErrors :
        LET r == DefaultAckHandler(sc, nid, err)
        IN  /\ sc' = r.s
            /\ pending' = pending \ {nid}
            /\ guids' = guids + r.pubCalls
            /\ last' = Did([op |-> "DefaultAckHandler", panic |-> r.panic, nid |-> nid,
                            ackErr |-> err, pubCalls |-> r.pubCalls,
                            payload |-> r.payload, logs |-> r.logs])
            /\ UNCHANGED <<cfg, now, closed, calls, derived, pc, loc>>

\* The life of one streaming connection, driven by a single goroutine.
Next ==
    \/ CallNewStanConn
    \/ CallStop
    \/ CallSendMessage
    \/ CallSendAsyncMessage
    \/ AckCallback

Spec == Init /\ [][Next]_vars

\* The factories alone, called any number of times on one Config.
NextFactory ==
    \/ CallNewConn
    \/ CallNewEncodedConn
    \/ CallNewStanConn

SpecFactory == Init /\ [][NextFactory]_vars

----------------------------------------------------------------------------
(* Actions: the send operations run by several goroutines, step by step *)

\* Goroutine g calls a send operation and runs it up to the answer of the
\* transport's publish.  Without a successful publish the operation logs
\* and returns here; with one, the update of the generator is still ahead.
GoSend(g) ==
    /\ pc[g] = "idle"
    /\ calls < MaxOps
    /\ \E async \in BOOLEAN, ch \in Channels, data \in Data,
          perr \in PublishOutcomes(sc.client) :
        LET r == IF async THEN SendAsyncMessage(sc, ch, data, perr)
                          ELSE SendMessage(sc, ch, data, perr)
            op == IF async THEN "SendAsyncMessage" ELSE "SendMessage"
            sent == r.pubCalls > 0 /\ perr = Nil
            nid == IF sent /\ async THEN guids + 1 ELSE 0
        IN  /\ sc' = IF sent THEN [r.s EXCEPT !.nuid = sc.nuid] ELSE r.s
            /\ guids' = IF sent THEN guids + 1 ELSE guids
            /\ pending' = IF sent /\ async THEN pending \cup {guids + 1} ELSE pending
            /\ pc' = [pc EXCEPT ![g] = IF sent THEN "published" ELSE "idle"]
            /\ loc' = [loc EXCEPT ![g] = IF sent THEN [op |-> op, nuid |-> NilNuid, nid |-> nid]
                                                  ELSE NoLocals]
            /\ last' = Did([op |-> op, g |-> g, step |-> IF sent THEN "publish" ELSE "return",
                            panic |-> r.panic, data |-> data,
                            marshalCalls |-> r.marshalCalls, marshalErr |-> r.marshalErr,
                            pubCalls |-> r.pubCalls, payload |-> r.payload,
                            pubErr |-> r.pubErr, nid |-> nid,
                            logs |-> IF sent THEN <<>> ELSE r.logs])
    /\ calls' = calls + 1
    /\ UNCHANGED <<cfg, now, closed, derived>>

\* g reads the generator: no lock is taken, so another goroutine may read
\* or write it before g writes it back.
GoReadNuid(g) ==
    /\ pc[g] = "published"
    /\ pc' = [pc EXCEPT ![g] = "read"]
    /\ loc' = [loc EXCEPT ![g].nuid = sc.nuid]
    /\ last' = Did([op |-> loc[g].op, g |-> g, step |-> "read", nid |-> loc[g].nid])
    /\ UNCHANGED <<cfg, now, sc, closed, pending, guids, calls, derived>>

\* g writes the generator back, advanced from what it read, logs and
\* returns; an outstanding acknowledgement is not waited for.
GoWriteNuid(g) ==
    /\ pc[g] = "read"
    /\ sc' = [sc EXCEPT !.nuid = IF loc[g].op = "SendAsyncMessage"
                                 THEN AdvanceAsync(loc[g].nuid)
                                 ELSE AdvanceSync(loc[g].nuid)]
    /\ pc' = [pc EXCEPT ![g] = "idle"]
    /\ loc' = [loc EXCEPT ![g] = NoLocals]
    /\ last' = Did([op |-> loc[g].op, g |-> g, step |-> "return", nid |-> loc[g].nid,
                    pubCalls |-> 0,
                    logs |-> << <<"info", IF loc[g].op = "SendAsyncMessage"
                                          THEN "Published" ELSE "Sent message">> >>])
    /\ UNCHANGED <<cfg, now, closed, pending, guids, calls, derived>>

NextConc ==
    \/ CallNewStanConn
    \/ CallStop
    \/ \E g \in Goroutines : GoSend(g)
    \/ \E g \in Goroutines : GoReadNuid(g)
    \/ \E g \in Goroutines : GoWriteNuid(g)
    \/ AckCallback

SpecConc == Init /\ [][NextConc]_vars

----------------------------------------------------------------------------
(* Properties *)

SendOps == {"SendMessage", "SendAsyncMessage"}
FactoryOps == {"NewConn", "NewEncodedConn", "NewStanConn"}

HasLog(logs, level) == \E i \in 1..Len(logs) : logs[i][1] = level

\* The send operation of `last` got as far as a publish the transport
\* accepted.
Sent == last.op \in SendOps /\ last.pubCalls = 1 /\ last.pubErr = Nil

\* C1: a send operation always returns normally and without an error value,
\* whatever the payload and whatever the transport answers; a payload that
\* cannot be marshalled is logged and no publish reaches the transport.
SendNeverFails ==
    last.op \in SendOps =>
        /\ ~last.panic
        /\ last.err = Nil
        /\ (last.data.kind = "chan" =>
                /\ last.pubCalls = 0
                /\ guids = last.guidsBefore
                /\ pending = last.pendingBefore)
        /\ (last.pubErr # Nil => HasLog(last.logs, "error"))

\* A connected StanConn was given a payload json.Marshal refuses.
SendUnmarshalable ==
    /\ last.op \in SendOps
    /\ last.scBefore.client # NoClient
    /\ last.data.kind = "chan"
    /\ last.marshalErr # Nil
    /\ HasLog(last.logs, "error")

\* C2: Stop with a nil client handle calls no Close and logs nothing; Stop
\* on a client an earlier Stop closed neither crashes nor hands the close
\* error on; a close error is only ever logged.
StopIsSafe ==
    last.op = "Stop" =>
        /\ ~last.panic
        /\ last.err = Nil
        /\ (last.scBefore.client = NoClient =>
                last.closeCalls = 0 /\ last.logs = <<>>)
        /\ (last.closeErr # Nil => HasLog(last.logs, "error"))

\* Stop ran on a client that was closed before, and Close gave an error.
StopOnClosedClient ==
    /\ last.op = "Stop"
    /\ last.wasClosed
    /\ last.closeErr = ErrConnectionClosed

\* C3: a factory call leaves every field of the caller's Config as it was.
ConfigImmutable ==
    last.op \in FactoryOps => cfg = last.cfgBefore

\* C4: every nats.Connect is given ReconnectWait(10 s) and
\* MaxReconnects(600 s / 10 s = 60), placed after the caller's own options
\* so that they decide, whatever the caller configured.
ReconnectPolicy ==
    last.op \in FactoryOps =>
        /\ last.natsConnects = 1
        /\ LastOpt(last.natsOpts, "MaxReconnects") = Opt("MaxReconnects", 60, 0)
        /\ LastOpt(last.natsOpts, "ReconnectWait") = Opt("ReconnectWait", 10 * Second, 0)
        /\ Len(last.natsOpts) = Len(last.cfgBefore.NatsConn) + 6

\* A factory ran on a Config whose caller had asked for another
\* MaxReconnects.
ReconnectPolicyOverCallerOption ==
    /\ last.op = "NewConn"
    /\ CountOpt(last.cfgBefore.NatsConn, "MaxReconnects") > 0
    /\ LastOpt(last.cfgBefore.NatsConn, "MaxReconnects").a = 5

\* The ack wait stan.Connect is given, and what NewStanConn appended.
AppendedAckWaits ==
    CountOpt(cfg.StanConn, "PubAckWait") - CountOpt(last.cfgBefore.StanConn, "PubAckWait")

AckWaitGiven ==
    LastOpt(last.stanOpts, "PubAckWait").a =
        IF last.cfgBefore.AckTimeout > 0 THEN last.cfgBefore.AckTimeout
                                         ELSE DefaultAckWait

\* C5 as stated: every NewStanConn call appends exactly one PubAckWait
\* option, with the configured timeout when positive and the default else.
AckWaitEveryCall ==
    last.op = "NewStanConn" => AppendedAckWaits = 1 /\ AckWaitGiven

\* C5, amended: a NewStanConn call whose NewConn succeeded appends exactly
\* one PubAckWait option and gives stan.Connect the configured timeout when
\* positive, the default when zero or negative; a call whose NewConn failed
\* appends none and asks no streaming connect.
AckWaitWhenConnected ==
    last.op = "NewStanConn" =>
        /\ (last.natsErr = Nil =>
                /\ last.stanConnects = 1
                /\ AppendedAckWaits = 1
                /\ AckWaitGiven
                /\ last.stanOpts = cfg.StanConn)
        /\ (last.natsErr # Nil => last.stanConnects = 0 /\ AppendedAckWaits = 0)

\* A second NewStanConn on the same Config, with a timeout that is not
\* positive, reached the streaming connect.
AckWaitDefaulted ==
    /\ last.op = "NewStanConn"
    /\ last.natsErr = Nil
    /\ last.cfgBefore.AckTimeout <= 0
    /\ CountOpt(last.cfgBefore.StanConn, "PubAckWait") > 1

\* C6: two NewStanConn calls with the same base id that read different Unix
\* timestamps derive different client ids.
ClientIdUnique ==
    \A a, b \in derived : (a.base = b.base /\ a.t # b.t) => a.id # b.id

\* Two connects, the timestamp growing from one digit to two between them.
TwoConnectsApart ==
    \E a, b \in derived : a.base = b.base /\ a.t = 9 /\ b.t = 10

\* C7: a factory hands back exactly the error of the first transport call
\* that failed, asks each transport call at most once and none after a
\* failure; a non-nil result comes with a nil error, and a non-nil StanConn
\* has a non-nil client.
ErrorsUnwrapped ==
    /\ last.op \in FactoryOps =>
        /\ last.natsConnects = 1
        /\ (last.natsErr # Nil =>
                /\ last.err = last.natsErr
                /\ ~last.nonNil
                /\ last.encWraps = 0
                /\ last.stanConnects = 0)
        /\ last.nonNil <=> last.err = Nil
    /\ last.op = "NewConn" => (last.natsErr = Nil => last.err = Nil)
    /\ last.op = "NewEncodedConn" =>
        (last.natsErr = Nil => last.encWraps = 1 /\ last.err = last.encErr)
    /\ last.op = "NewStanConn" =>
        /\ (last.natsErr = Nil => last.stanConnects = 1 /\ last.err = last.stanErr)
        /\ (last.nonNil => sc.client # NoClient /\ sc.clientId = last.clientId)
        /\ (~last.nonNil => sc = last.scBefore)

\* NewStanConn failed at the streaming connect, after NewConn succeeded.
StanConnectFailed ==
    /\ last.op = "NewStanConn"
    /\ last.natsErr = Nil
    /\ last.stanErr \in StanConnectErrors
    /\ last.err = last.stanErr

\* C8: a send operation changes the generator only when its publish
\* succeeded: SendAsyncMessage then randomizes the prefix once and advances
\* once, SendMessage advances once and leaves the prefix.  The payload
\* published is the JSON of the data and the id PublishAsync returns is the
\* transport's own, whatever the generator holds.
NuidOnlyOnSuccess ==
    last.op \in SendOps =>
        /\ (Sent /\ last.op = "SendAsyncMessage" =>
                sc.nuid = [last.scBefore.nuid EXCEPT !.randomized = @ + 1, !.next = @ + 1])
        /\ (Sent /\ last.op = "SendMessage" =>
                sc.nuid = [last.scBefore.nuid EXCEPT !.next = @ + 1])
        /\ (~Sent => sc.nuid = last.scBefore.nuid)
        /\ (last.pubCalls = 1 =>
                last.payload = (IF last.data.kind = "int" THEN "42" ELSE "null"))
        /\ (Sent /\ last.op = "SendAsyncMessage" => last.nid = last.guidsBefore + 1)

\* An async publish succeeded on a generator an earlier send had advanced.
AsyncSentAgain ==
    /\ Sent
    /\ last.op = "SendAsyncMessage"
    /\ last.scBefore.nuid = [isNil |-> FALSE, randomized |-> 0, next |-> 1]
    /\ last.data.kind = "int"

\* C10: Stop leaves the client handle as it was, so a send after Stop still
\* marshals and publishes on the closed client (the error is logged and
\* dropped), and a second Stop calls Close again; only a StanConn that no
\* successful NewStanConn produced has a nil handle.
StopKeepsHandle ==
    /\ last.op = "Stop" =>
        /\ sc.client = last.scBefore.client
        /\ (last.scBefore.client # NoClient => last.closeCalls = 1 /\ sc.client \in closed)
    /\ (last.op \in SendOps /\ last.wasClosed) =>
        /\ last.marshalCalls = 1
        /\ (last.data.kind # "chan" =>
                /\ last.pubCalls = 1
                /\ last.pubErr # Nil
                /\ HasLog(last.logs, "error")
                /\ ~last.panic)
    /\ sc.client = NoClient <=> sc = ZeroStanConn
    /\ sc.client = NoClient => closed = {}

\* A send ran after Stop and published on the closed client.
SendAfterStop ==
    /\ last.op \in SendOps
    /\ last.wasClosed
    /\ last.pubCalls = 1
    /\ last.pubErr = ErrConnectionClosed

\* C9: whatever the interleaving of send operations and acknowledgement
\* callbacks, their steps change nothing of the StanConn but the generator
\* and nothing of the Config; a sender past its publish can always go on to
\* return, acknowledged or not; and the callback, for an error as for a
\* success, changes no StanConn state and asks the transport for nothing.
OnlyNuidShared ==
    /\ [](\A g \in Goroutines :
            /\ pc[g] = "published" => ENABLED GoReadNuid(g)
            /\ pc[g] = "read" => ENABLED GoWriteNuid(g))
    /\ [][last'.op \in SendOps \cup {"DefaultAckHandler"} =>
            /\ sc'.client = sc.client
            /\ sc'.clientId = sc.clientId
            /\ sc'.logger = sc.logger
            /\ cfg' = cfg
            /\ closed' = closed
            /\ ~last'.panic
            /\ (last'.op = "DefaultAckHandler" =>
                    /\ sc' = sc
                    /\ guids' = guids
                    /\ last'.pubCalls = 0
                    /\ pending' = pending \ {last'.nid}
                    /\ pc' = pc)]_vars

\* SendAsyncMessage returned with its acknowledgement outstanding, and the
\* callback then ran with an error while another goroutine stood between
\* its read and its write of the generator.
AckDuringSend ==
    /\ last.op = "DefaultAckHandler"
    /\ last.ackErr # Nil
    /\ \E g \in Goroutines : pc[g] = "read"
    /\ \E g \in Goroutines : pc[g] = "idle"

\* The race on the generator: two sends published, both returned, and the
\* generator advanced once.
LostUpdate ==
    /\ Idle
    /\ guids = 2
    /\ sc.nuid.next = 1

====
